---- MODULE Spec2Model ----
(***************************************************************************)
(* Model of security.txt/scripts/query.py: the resumable batch prober.     *)
(*                                                                         *)
(* Text is modelled as sequences of tokens.  A token is either one of the  *)
(* single characters the code inspects (a decimal digit, "," ":" " " "#"   *)
(* "<" "-") or the line terminator, or a word: a run of characters none of *)
(* which the code or the csv module inspects.  A body is a sequence of     *)
(* lines (what str.splitlines returns), a line a sequence of tokens.  The  *)
(* output file is the sequence of tokens written to it.                    *)
(***************************************************************************)
EXTENDS Integers, Sequences, FiniteSets, TLC

\* Bounds of the model.
MaxDomains == 3
MaxRuns == 2
MaxKills == 1
MaxBodyLines == 2

\* Program constants.
SCHEMA == "https://"
REQUIRED_FIELDS == <<"contact">>
INTERESTING_FIELDS == REQUIRED_FIELDS \o <<"expires", "hiring", "policy", "acknowledgements">>
SECURITY_DOT_TXT_PATHS == <<"/.well-known/security.txt", "/security.txt">>
OK_STATUS == 200

\* The csv module's line terminator and delimiter.
NL == "\r\n"
COMMA == ","
QUOTE == "\""

Digit == <<"0", "1", "2", "3", "4", "5", "6", "7", "8", "9">>

IsDigit(t) == \E d \in 1..10 : Digit[d] = t

DigitVal(t) == (CHOOSE d \in 1..10 : Digit[d] = t) - 1

\* str(i) for a non-negative integer, as writerow renders the index cell.
RECURSIVE Str(_)
Str(i) == IF i < 10 THEN <<Digit[i + 1]>> ELSE Str(i \div 10) \o <<Digit[(i % 10) + 1]>>

\* str.lower on one token.
LowerTok(t) ==
    CASE t = "Contact" -> "contact"
      [] t = "CONTACT" -> "contact"
      [] t = "Expires" -> "expires"
      [] t = "Policy" -> "policy"
      [] t = "Hiring" -> "hiring"
      [] t = "Acknowledgements" -> "acknowledgements"
      [] t = "Canonical" -> "canonical"
      [] t = "MAILTO" -> "mailto"
      [] t = "A@X.com" -> "a@x.com"
      [] t = "B@X.com" -> "b@x.com"
      [] OTHER -> t

\* line.lower()
Lower(line) == [k \in 1..Len(line) |-> LowerTok(line[k])]

\* Position of the last ": " in a line, 0 when there is none.
SepPosLast(line) ==
    LET hits == {k \in 1..(Len(line) - 1) : line[k] = ":" /\ line[k + 1] = " "}
    IN IF hits = {} THEN 0 ELSE CHOOSE k \in hits : \A h \in hits : k >= h

\* Position of the first ": " in a line, 0 when there is none.
SepPos(line) ==
    LET hits == {k \in 1..(Len(line) - 1) : line[k] = ":" /\ line[k + 1] = " "}
    IN IF hits = {} THEN 0 ELSE CHOOSE k \in hits : \A h \in hits : k <= h

\* Index of a key in the ordered field map, 0 when absent.
KeyPos(fields, key) ==
    LET hits == {k \in 1..Len(fields) : fields[k].field = key}
    IN IF hits = {} THEN 0 ELSE CHOOSE k \in hits : TRUE

\* One iteration of the line loop: skip or append to the field's list.
ParseLine(fields, line) ==
    IF Len(line) = 0 \/ line[1] = "#" THEN fields
    ELSE LET low == Lower(line)
             s == SepPos(low)
         IN IF s = 0 THEN fields
            ELSE LET field == SubSeq(low, 1, s - 1)
                     value == SubSeq(low, s + 2, Len(low))
                     pos == KeyPos(fields, field)
                 IN IF pos = 0
                    THEN Append(fields, [field |-> field, values |-> <<value>>])
                    ELSE [fields EXCEPT ![pos].values = Append(@, value)]

\* The field map of a body: the line loop over response.text.splitlines().
RECURSIVE ParseFrom(_, _, _)
ParseFrom(fields, text, k) ==
    IF k > Len(text) THEN fields
    ELSE ParseFrom(ParseLine(fields, text[k]), text, k + 1)

Parse(text) == ParseFrom(<<>>, text, 1)

\* all(field.lower() in fields for field in REQUIRED_FIELDS)
HasRequired(fields) ==
    \A r \in 1..Len(REQUIRED_FIELDS) : KeyPos(fields, <<LowerTok(REQUIRED_FIELDS[r])>>) # 0

\* The markup test of line 108 left out.
NoHtmlCheck(text) == FALSE

\* response.text.startswith("<")
StartsWithLt(text) == Len(text) > 0 /\ Len(text[1]) > 0 /\ text[1][1] = "<"

\* Whether the loop body reaches writerow for this fetch outcome.
Accepted(resp) ==
    /\ resp.kind = "response"
    /\ resp.status_code = OK_STATUS
    /\ ~StartsWithLt(resp.text)
    /\ HasRequired(Parse(resp.text))

\* "".join(values)
RECURSIVE JoinNoSpace(_)
JoinNoSpace(values) ==
    IF Len(values) = 0 THEN <<>>
    ELSE values[1] \o JoinNoSpace(Tail(values))

\* " ".join(values)
RECURSIVE Join(_)
Join(values) ==
    IF Len(values) = 0 THEN <<>>
    ELSE IF Len(values) = 1 THEN values[1]
    ELSE values[1] \o <<" ">> \o Join(Tail(values))

\* The cell DictWriter writes for one column: the joined values of an
\* interesting field, or the empty restval.
Cell(fields, name) ==
    LET pos == KeyPos(fields, <<name>>)
    IN IF pos = 0 THEN <<>> ELSE Join(fields[pos].values)

\* The csv writer doubles every quote character of a cell it quotes.
RECURSIVE EscapeQuotes(_)
EscapeQuotes(cell) ==
    IF Len(cell) = 0 THEN <<>>
    ELSE (IF cell[1] = QUOTE THEN <<QUOTE, QUOTE>> ELSE <<cell[1]>>) \o EscapeQuotes(Tail(cell))

\* csv.QUOTE_MINIMAL, the writer's default: a cell holding the delimiter,
\* the quote character or a line terminator is written between quotes.
CsvField(cell) ==
    IF \E k \in 1..Len(cell) : cell[k] \in {COMMA, QUOTE, NL}
    THEN <<QUOTE>> \o EscapeQuotes(cell) \o <<QUOTE>>
    ELSE cell

RECURSIVE Cells(_, _)
Cells(fields, k) ==
    IF k > Len(INTERESTING_FIELDS) THEN <<>>
    ELSE <<COMMA>> \o CsvField(Cell(fields, INTERESTING_FIELDS[k])) \o Cells(fields, k + 1)

\* SCHEMA + row["Domain"]
Site(domain) == <<SCHEMA, domain>>

\* RowLine with the index counted from one.
RowLineOneBased(i, site, fields) ==
    CsvField(Str(i + 1)) \o <<COMMA>> \o CsvField(site) \o Cells(fields, 1) \o <<NL>>

\* The line writer.writerow emits for {"index": i, "site": site, **output}.
RowLine(i, site, fields) ==
    CsvField(Str(i)) \o <<COMMA>> \o CsvField(site) \o Cells(fields, 1) \o <<NL>>

RECURSIVE HeaderCells(_)
HeaderCells(k) ==
    IF k > Len(INTERESTING_FIELDS) THEN <<>>
    ELSE <<COMMA, INTERESTING_FIELDS[k]>> \o HeaderCells(k + 1)

\* The line writer.writeheader emits.
HeaderLine == <<"index", COMMA, "site">> \o HeaderCells(1) \o <<NL>>

\* The csv reader's state after one token: at the start of a cell
\* ("start"), in an unquoted cell ("in"), in a quoted cell ("q"), or after
\* a quote inside a quoted cell ("qq").
ReaderState(st, t) ==
    CASE st = "q" -> (IF t = QUOTE THEN "qq" ELSE "q")
      [] st = "qq" /\ t = QUOTE -> "q"
      [] st = "start" /\ t = QUOTE -> "q"
      [] t = COMMA \/ t = NL -> "start"
      [] OTHER -> "in"

\* The text of each record csv.reader yields: a record ends at a line
\* terminator outside a quoted cell, or at the end of the file.
RECURSIVE RecordsFrom(_, _, _, _)
RecordsFrom(toks, k, st, cur) ==
    IF k > Len(toks) THEN (IF Len(cur) = 0 THEN <<>> ELSE <<cur>>)
    ELSE IF toks[k] = NL /\ st # "q" THEN <<cur>> \o RecordsFrom(toks, k + 1, "start", <<>>)
    ELSE RecordsFrom(toks, k + 1, ReaderState(st, toks[k]), Append(cur, toks[k]))

FileLines(file) == RecordsFrom(file, 1, "start", <<>>)

\* The cells of one record: split at delimiters outside quoted cells, the
\* enclosing quotes dropped and doubled quotes read as one.
RECURSIVE CellsFrom(_, _, _, _)
CellsFrom(line, k, st, cell) ==
    IF k > Len(line) THEN <<cell>>
    ELSE IF line[k] = COMMA /\ st # "q" THEN <<cell>> \o CellsFrom(line, k + 1, "start", <<>>)
    ELSE IF line[k] = QUOTE /\ st \in {"start", "q"}
         THEN CellsFrom(line, k + 1, ReaderState(st, line[k]), cell)
    ELSE CellsFrom(line, k + 1, ReaderState(st, line[k]), Append(cell, line[k]))

\* csv.reader yields no cell at all for a blank line.
LineCells(line) == IF Len(line) = 0 THEN <<>> ELSE CellsFrom(line, 1, "start", <<>>)

\* The rows csv.DictReader iterates: every non-blank line after the first.
DataLines(file) ==
    LET lines == FileLines(file)
    IN SelectSeq(SubSeq(lines, 2, Len(lines)), LAMBDA l : Len(l) > 0)

RECURSIVE StripLeft(_)
StripLeft(cell) ==
    IF Len(cell) > 0 /\ cell[1] = " " THEN StripLeft(Tail(cell)) ELSE cell

RECURSIVE StripRight(_)
StripRight(cell) ==
    IF Len(cell) > 0 /\ cell[Len(cell)] = " "
    THEN StripRight(SubSeq(cell, 1, Len(cell) - 1)) ELSE cell

RECURSIVE DigitsVal(_, _)
DigitsVal(digits, acc) ==
    IF Len(digits) = 0 THEN acc
    ELSE DigitsVal(Tail(digits), 10 * acc + DigitVal(digits[1]))

\* int(cell): surrounding blanks are stripped, an optional sign, then one or
\* more decimal digits; anything else raises ValueError.
ParseInt(cell) ==
    LET s == StripRight(StripLeft(cell))
        neg == Len(s) > 0 /\ s[1] = "-"
        digits == IF neg THEN Tail(s) ELSE s
    IN IF Len(digits) = 0 \/ \E k \in 1..Len(digits) : ~IsDigit(digits[k])
       THEN [ok |-> FALSE, val |-> 0]
       ELSE [ok |-> TRUE, val |-> IF neg THEN 0 - DigitsVal(digits, 0) ELSE DigitsVal(digits, 0)]

\* Position of a column in the header, 0 when absent.
ColumnPos(fieldnames, name) ==
    LET hits == {k \in 1..Len(fieldnames) : fieldnames[k] = <<name>>}
    IN IF hits = {} THEN 0 ELSE CHOOSE k \in hits : \A h \in hits : k >= h

ReadLastQueriedLenient(file) ==
    LET lines == FileLines(file)
        rows == DataLines(file)
    IN IF Len(rows) = 0 THEN [error |-> "UnboundLocalError", val |-> 0]
       ELSE LET fieldnames == LineCells(lines[1])
                last_row == LineCells(rows[Len(rows)])
                col == ColumnPos(fieldnames, "index")
            IN IF col = 0 THEN [error |-> "KeyError", val |-> 0]
               ELSE IF col > Len(last_row) THEN [error |-> "TypeError", val |-> 0]
               ELSE IF ~ParseInt(last_row[col]).ok THEN [error |-> "none", val |-> 0]
               ELSE [error |-> "none", val |-> ParseInt(last_row[col]).val + 1]

\* Lines 59-63: iterate the rows of the existing output, keep the last, and
\* take int(last_row["index"]) + 1.  error names the exception that ends
\* the process when there is one.
ReadLastQueried(file) ==
    LET lines == FileLines(file)
        rows == DataLines(file)
    IN IF Len(rows) = 0 THEN [error |-> "UnboundLocalError", val |-> 0]
       ELSE LET fieldnames == LineCells(lines[1])
                last_row == LineCells(rows[Len(rows)])
                col == ColumnPos(fieldnames, "index")
            IN IF col = 0 THEN [error |-> "KeyError", val |-> 0]
               ELSE IF col > Len(last_row) THEN [error |-> "TypeError", val |-> 0]
               ELSE IF ~ParseInt(last_row[col]).ok THEN [error |-> "ValueError", val |-> 0]
               ELSE [error |-> "none", val |-> ParseInt(last_row[col]).val + 1]

(***************************************************************************)
(* Inputs: the domain source and the network.                              *)
(***************************************************************************)

\* The Domain column of the sites CSV, position k (0-based) at DomainNames[k + 1].
DomainNames == <<"d0.com", "d1.com", "d2.com", "d3.com", "d4.com", "d5.com",
                 "d6.com", "d7.com", "d8.com", "d9.com", "d10.com", "d11.com">>

Source(n) == SubSeq(DomainNames, 1, n)

\* What requests.get can produce: an exception, or a response.
RErr == [kind |-> "error", status_code |-> 0, text |-> <<>>]
R404 == [kind |-> "response", status_code |-> 404, text |-> <<>>]
RHtml == [kind |-> "response", status_code |-> 200,
          text |-> << <<"<", "html>">>, <<"Contact", ":", " ", "mailto", ":", "a@x.com">> >>]
RNoContact == [kind |-> "response", status_code |-> 200,
               text |-> << <<"Expires", ":", " ", "2025-01-01">> >>]
RValid == [kind |-> "response", status_code |-> 200,
           text |-> << <<"Contact", ":", " ", "mailto", ":", "a@x.com">> >>]
RValid2 == [kind |-> "response", status_code |-> 200,
            text |-> << <<"#", " ", "comment">>,
                        <<"CONTACT", ":", " ", "MAILTO", ":", "A@X.com">>,
                        <<"Canonical", ":", " ", "url">>,
                        <<"malformed">>,
                        <<"Contact", ":", " ", "mailto", ":", "B@X.com">>,
                        <<"Policy", ":", " ", "p">> >>]

\* The responses of the candidate paths of the domain at index k, in path
\* order, when no path serves a valid file and when one does.
Miss(k) == IF k % 2 = 0 THEN <<RErr, RNoContact>> ELSE <<RHtml, R404>>
Hit(k) == IF k % 2 = 1 THEN <<RValid, RErr>> ELSE <<R404, RValid2>>

\* The network for a source of n domains of which those in found serve a file.
NetFor(n, found) == [k \in 1..n |-> IF (k - 1) \in found THEN Hit(k - 1) ELSE Miss(k - 1)]

\* Every outcome a fetch can have.
Responses == {RErr, R404, RHtml, RNoContact, RValid, RValid2}

\* A network of three domains whose middle one answers r1 on the first
\* candidate path and r2 on the second.
PairNet(r1, r2) == <<Miss(0), <<r1, r2>>, Hit(2)>>

\* A source long enough for two-digit indices, with two domains that serve a file.
\* Lines a served body is made of: an empty line, a comment that mentions
\* Contact, Contact lines in two letter cases, another interesting field, a
\* name without the blank after the colon, markup, a value
\* that holds the separator again, an empty value, a field outside
\* INTERESTING_FIELDS, and a value holding the csv delimiter and a quote.
LEmpty == <<>>
LComment == <<"#", "Contact", ":", " ", "c@x.com">>
LContact == <<"Contact", ":", " ", "mailto", ":", "a@x.com">>
LContactUpper == <<"CONTACT", ":", " ", "MAILTO", ":", "B@X.com">>
LExpires == <<"Expires", ":", " ", "2025-01-01">>
LNoSpace == <<"Contact", ":", "nospace">>
LHtml == <<"<", "html", ">">>
LTwoSeps == <<"Policy", ":", " ", "see", ":", " ", "p">>
LEmptyValue == <<"Contact", ":", " ">>
LCanonical == <<"Canonical", ":", " ", "url">>
LCommaQuote == <<"Hiring", ":", " ", "a", COMMA, QUOTE, "b">>

BodyLines == {LEmpty, LComment, LContact, LContactUpper, LExpires, LNoSpace, LHtml,
              LTwoSeps, LEmptyValue, LCanonical, LCommaQuote}

\* response.text.splitlines() of the bodies a server may send.
Bodies == UNION {[1..n -> BodyLines] : n \in 0..MaxBodyLines}

\* A response with status 200 and the given body.
Body200(text) == [kind |-> "response", status_code |-> OK_STATUS, text |-> text]

\* A source of two domains whose second domain serves the given body at
\* the first candidate path.
BodyNet(text) == <<Miss(0), <<Body200(text), R404>> >>

LongLen == 11
LongFound == {3, 10}

\* Output files that something other than this program left behind.
FileAbc == HeaderLine \o <<"abc", COMMA, SCHEMA, "d0.com", NL>>
FileNoIndex == HeaderLine \o <<COMMA, SCHEMA, "d0.com", NL>>
FileNoColumn == <<"site", NL, SCHEMA, "d0.com", NL>>
ForeignFiles == {FileAbc, FileNoIndex, FileNoColumn, HeaderLine, <<>>}

(***************************************************************************)
(* State.                                                                  *)
(***************************************************************************)
VARIABLES
    sites,            \* the domain source
    net,              \* net[k][p]: what fetching path p of domain k - 1 gives
    exists,           \* out_path.exists()
    disk,             \* the tokens of the output file that are on disk
    buf,              \* tokens written to out_file that may still be in its buffer
    pc,               \* "idle", "loop", "fetch", "done", "aborted", "interrupted", "killed"
    last_queried,
    i,                \* the enumerate index of the row the loop is at
    path,             \* position in security_dot_txt_paths
    has_securitytxt,
    runs,             \* processes started so far
    kills,            \* processes killed so far
    started_absent,   \* the output file did not exist before the first run
    processed,        \* indices some run finished probing
    probed,           \* indices the current run has fetched for
    emitted,          \* indices the current run has written a row for
    url,              \* the URL of the latest fetch
    fields,           \* the field map of the latest body that was parsed
    fetches           \* the fetches of the current run, in order

vars == <<sites, net, exists, disk, buf, pc, last_queried, i, path, has_securitytxt,
          runs, kills, started_absent, processed, probed, emitted, url, fields, fetches>>

locals == <<url, fields, fetches>>

inputs == <<sites, net, started_absent>>

Stopped == {"idle", "done", "aborted", "interrupted", "killed"}
Running == {"loop", "fetch"}

security_dot_txt_paths == SECURITY_DOT_TXT_PATHS

Init ==
    /\ \/ \E n \in 1..MaxDomains : \E found \in SUBSET (0..(n - 1)) :
             /\ sites = Source(n)
             /\ net = NetFor(n, found)
       \/ /\ sites = Source(LongLen)
          /\ net = NetFor(LongLen, LongFound)
       \/ \E r1, r2 \in Responses :
             /\ net = PairNet(r1, r2)
             /\ sites = Source(Len(net))
    /\ \/ /\ exists = FALSE
          /\ disk = <<>>
       \/ /\ exists = TRUE
          /\ disk \in ForeignFiles
    /\ started_absent = ~exists
    /\ buf = <<>>
    /\ pc = "idle"
    /\ last_queried = 0
    /\ i = 0
    /\ path = 1
    /\ has_securitytxt = FALSE
    /\ runs = 0
    /\ kills = 0
    /\ processed = {}
    /\ probed = {}
    /\ emitted = {}
    /\ url = <<>>
    /\ fields = <<>>
    /\ fetches = <<>>

\* The program started on a source whose second domain serves any of the
\* bounded bodies, with no output file yet.
InitParse ==
    /\ \E text \in Bodies :
          /\ net = BodyNet(text)
          /\ sites = Source(Len(net))
    /\ exists = FALSE
    /\ disk = <<>>
    /\ started_absent = ~exists
    /\ buf = <<>>
    /\ pc = "idle"
    /\ last_queried = 0
    /\ i = 0
    /\ path = 1
    /\ has_securitytxt = FALSE
    /\ runs = 0
    /\ kills = 0
    /\ processed = {}
    /\ probed = {}
    /\ emitted = {}
    /\ url = <<>>
    /\ fields = <<>>
    /\ fetches = <<>>

\* Lines 56-63 when reading the resume state raises: the process ends before
\* the output is opened for appending.
StartAbort ==
    /\ pc \in Stopped
    /\ runs < MaxRuns
    /\ exists
    /\ ReadLastQueried(disk).error # "none"
    /\ pc' = "aborted"
    /\ runs' = runs + 1
    /\ last_queried' = 0
    /\ i' = 0
    /\ path' = 1
    /\ has_securitytxt' = FALSE
    /\ probed' = {}
    /\ emitted' = {}
    /\ url' = <<>>
    /\ fields' = <<>>
    /\ fetches' = <<>>
    /\ UNCHANGED <<inputs, exists, disk, buf, kills, processed>>

HeaderAlways(lq) == HeaderLine

\* Lines 76-77: the header is written only when last_queried is 0.
HeaderIfFresh(lq) == IF lq = 0 THEN HeaderLine ELSE <<>>

\* Lines 56-77: resolve last_queried, open the output for appending, write
\* the header when last_queried is 0, and enter the row loop.
StartRun ==
    /\ pc \in Stopped
    /\ runs < MaxRuns
    /\ exists => ReadLastQueried(disk).error = "none"
    /\ last_queried' = (IF exists THEN ReadLastQueried(disk).val ELSE 0)
    /\ exists' = TRUE
    /\ buf' = HeaderIfFresh(last_queried')
    /\ pc' = "loop"
    /\ i' = 0
    /\ path' = 1
    /\ has_securitytxt' = FALSE
    /\ runs' = runs + 1
    /\ probed' = {}
    /\ emitted' = {}
    /\ url' = <<>>
    /\ fields' = <<>>
    /\ fetches' = <<>>
    /\ UNCHANGED <<inputs, disk, kills, processed>>

\* Lines 78-81: the skip branch of the row loop.
SkipRow ==
    /\ pc = "loop"
    /\ i < Len(sites)
    /\ i <= last_queried
    /\ i' = i + 1
    /\ UNCHANGED <<inputs, exists, disk, buf, pc, last_queried, path, has_securitytxt,
                   runs, kills, processed, probed, emitted, locals>>

\* Lines 83-88: a row that is not skipped; the path loop starts.
BeginDomain ==
    /\ pc = "loop"
    /\ i < Len(sites)
    /\ ~(i <= last_queried)
    /\ has_securitytxt' = FALSE
    /\ path' = 1
    /\ pc' = "fetch"
    /\ UNCHANGED <<inputs, exists, disk, buf, last_queried, i, runs, kills, processed,
                   probed, emitted, locals>>

\* UrlJoin that always takes the first candidate path.
UrlJoinFirst(site, p) == site \o <<SECURITY_DOT_TXT_PATHS[1]>>

\* Line 89: urllib.parse.urljoin(site, path); site has no path of its own and
\* every candidate path is absolute, so the result is the site followed by
\* the path.
UrlJoin(site, p) == site \o <<p>>

\* The accumulator carried over from the body parsed before.
KeptFields(prev) == prev

\* Line 113: the accumulator is a new empty map for every body.
FreshFields(prev) == <<>>

\* Lines 113-123 as the path loop runs them.
ParseBody(prev, text) == ParseFrom(FreshFields(prev), text, 1)

\* Whether the loop body gets as far as parsing the body (line 112).
ReachesParse(resp) ==
    /\ resp.kind = "response"
    /\ resp.status_code = OK_STATUS
    /\ ~StartsWithLt(resp.text)

\* ProbeRejected without the try/except of lines 91-98: an exception of
\* requests.get leaves main.
ProbeRejectedAbort ==
    /\ pc = "fetch"
    /\ ~Accepted(net[i + 1][path])
    /\ probed' = probed \cup {i}
    /\ url' = UrlJoin(Site(sites[i + 1]), security_dot_txt_paths[path])
    /\ fetches' = Append(fetches, [index |-> i, path |-> path])
    /\ fields' = (IF ReachesParse(net[i + 1][path])
                  THEN ParseBody(fields, net[i + 1][path].text) ELSE fields)
    /\ IF net[i + 1][path].kind = "error"
       THEN /\ pc' = "aborted"
            /\ disk' = disk \o buf
            /\ buf' = <<>>
            /\ UNCHANGED <<path, i, processed>>
       ELSE /\ UNCHANGED <<disk, buf>>
            /\ IF path < Len(security_dot_txt_paths)
               THEN /\ path' = path + 1
                    /\ UNCHANGED <<pc, i, processed>>
               ELSE /\ path' = 1
                    /\ pc' = "loop"
                    /\ i' = i + 1
                    /\ processed' = processed \cup {i}
    /\ UNCHANGED <<inputs, exists, last_queried, has_securitytxt, runs, kills, emitted>>

\* ProbeRejected with one retry of a fetch that raised.
ProbeRejectedRetry ==
    /\ pc = "fetch"
    /\ ~Accepted(net[i + 1][path])
    /\ probed' = probed \cup {i}
    /\ url' = UrlJoin(Site(sites[i + 1]), security_dot_txt_paths[path])
    /\ fetches' = Append(fetches, [index |-> i, path |-> path])
    /\ fields' = (IF ReachesParse(net[i + 1][path])
                  THEN ParseBody(fields, net[i + 1][path].text) ELSE fields)
    /\ IF /\ net[i + 1][path].kind = "error"
          /\ (fetches = <<>> \/ fetches[Len(fetches)] # [index |-> i, path |-> path])
       THEN UNCHANGED <<path, pc, i, processed>>
       ELSE IF path < Len(security_dot_txt_paths)
       THEN /\ path' = path + 1
            /\ UNCHANGED <<pc, i, processed>>
       ELSE /\ path' = 1
            /\ pc' = "loop"
            /\ i' = i + 1
            /\ processed' = processed \cup {i}
    /\ UNCHANGED <<inputs, exists, disk, buf, last_queried, has_securitytxt, runs, kills,
                   emitted>>

\* Lines 89-128, then 143-152 after the last path: a fetch whose outcome takes
\* one of the continue branches.
ProbeRejected ==
    /\ pc = "fetch"
    /\ ~Accepted(net[i + 1][path])
    /\ probed' = probed \cup {i}
    /\ url' = UrlJoin(Site(sites[i + 1]), security_dot_txt_paths[path])
    /\ fetches' = Append(fetches, [index |-> i, path |-> path])
    /\ fields' = (IF ReachesParse(net[i + 1][path])
                  THEN ParseBody(fields, net[i + 1][path].text) ELSE fields)
    /\ IF path < Len(security_dot_txt_paths)
       THEN /\ path' = path + 1
            /\ UNCHANGED <<pc, i, processed>>
       ELSE /\ path' = 1
            /\ pc' = "loop"
            /\ i' = i + 1
            /\ processed' = processed \cup {i}
    /\ UNCHANGED <<inputs, exists, disk, buf, last_queried, has_securitytxt, runs, kills,
                   emitted>>

\* ProbeAccepted without the break at line 141.
ProbeAcceptedNoBreak ==
    /\ pc = "fetch"
    /\ Accepted(net[i + 1][path])
    /\ probed' = probed \cup {i}
    /\ has_securitytxt' = TRUE
    /\ url' = UrlJoin(Site(sites[i + 1]), security_dot_txt_paths[path])
    /\ fetches' = Append(fetches, [index |-> i, path |-> path])
    /\ fields' = ParseBody(fields, net[i + 1][path].text)
    /\ buf' = buf \o RowLine(i, Site(sites[i + 1]), fields')
    /\ emitted' = emitted \cup {i}
    /\ IF path < Len(security_dot_txt_paths)
       THEN /\ path' = path + 1
            /\ UNCHANGED <<pc, i, processed>>
       ELSE /\ path' = 1
            /\ pc' = "loop"
            /\ i' = i + 1
            /\ processed' = processed \cup {i}
    /\ UNCHANGED <<inputs, exists, disk, last_queried, runs, kills>>

\* Lines 89-141, then 143-152: a fetch whose body is accepted; the row is
\* written to out_file and the path loop is left.
ProbeAccepted ==
    /\ pc = "fetch"
    /\ Accepted(net[i + 1][path])
    /\ probed' = probed \cup {i}
    /\ has_securitytxt' = TRUE
    /\ url' = UrlJoin(Site(sites[i + 1]), security_dot_txt_paths[path])
    /\ fetches' = Append(fetches, [index |-> i, path |-> path])
    /\ fields' = ParseBody(fields, net[i + 1][path].text)
    /\ buf' = buf \o RowLine(i, Site(sites[i + 1]), fields')
    /\ emitted' = emitted \cup {i}
    /\ processed' = processed \cup {i}
    /\ path' = 1
    /\ pc' = "loop"
    /\ i' = i + 1
    /\ UNCHANGED <<inputs, exists, disk, last_queried, runs, kills>>

\* Line 78 when the reader is exhausted: the with block ends and closes
\* out_file, which flushes its buffer.
Finish ==
    /\ pc = "loop"
    /\ i >= Len(sites)
    /\ disk' = disk \o buf
    /\ buf' = <<>>
    /\ pc' = "done"
    /\ UNCHANGED <<inputs, exists, last_queried, i, path, has_securitytxt, runs, kills,
                   processed, probed, emitted, locals>>

\* KeyboardInterrupt (not caught by `except Exception`) unwinds through the
\* with block, which closes out_file and flushes its buffer.
Interrupt ==
    /\ pc \in Running
    /\ disk' = disk \o buf
    /\ buf' = <<>>
    /\ pc' = "interrupted"
    /\ UNCHANGED <<inputs, exists, last_queried, i, path, has_securitytxt, runs, kills,
                   processed, probed, emitted, locals>>

\* How much of the pending output the io layer has handed to the OS: out_file
\* is opened with default buffering and never flushed by the code, so the
\* layer writes when its buffer fills, at a byte offset unrelated to line
\* ends.  The header alone never fills the buffer.
FlushPoints(onDisk, pending) ==
    {k \in 0..Len(pending) : k = 0 \/ Len(onDisk) + k >= Len(HeaderLine)}

\* The process is terminated without unwinding (SIGKILL, power loss): what
\* the buffer still holds is lost.
Kill ==
    /\ pc \in Running
    /\ kills < MaxKills
    /\ \E k \in FlushPoints(disk, buf) : disk' = disk \o SubSeq(buf, 1, k)
    /\ buf' = <<>>
    /\ pc' = "killed"
    /\ kills' = kills + 1
    /\ UNCHANGED <<inputs, exists, last_queried, i, path, has_securitytxt, runs,
                   processed, probed, emitted, locals>>

Next ==
    \/ StartAbort
    \/ StartRun
    \/ SkipRow
    \/ BeginDomain
    \/ ProbeRejected
    \/ ProbeAccepted
    \/ Finish
    \/ Interrupt
    \/ Kill

Spec == Init /\ [][Next]_vars

SpecParse == InitParse /\ [][Next]_vars

(***************************************************************************)
(* What a run that is never interrupted leaves behind.                     *)
(***************************************************************************)

\* The first candidate path of domain k whose response is accepted, 0 when
\* the path loop ends without a break.
FirstAccepted(k) ==
    LET hits == {q \in 1..Len(security_dot_txt_paths) : Accepted(net[k + 1][q])}
    IN IF hits = {} THEN 0 ELSE CHOOSE q \in hits : \A h \in hits : q <= h

\* The row the path loop writes for domain k when it breaks.
ResultLine(k) ==
    RowLine(k, Site(sites[k + 1]), Parse(net[k + 1][FirstAccepted(k)].text))

\* The rows the row loop writes from enumerate index k on, for a given
\* last_queried.
RECURSIVE RunRows(_, _)
RunRows(k, lq) ==
    IF k >= Len(sites) THEN <<>>
    ELSE (IF k <= lq \/ FirstAccepted(k) = 0 THEN <<>> ELSE ResultLine(k))
         \o RunRows(k + 1, lq)

\* The output file after one complete run on an output that did not exist.
UninterruptedOutput == HeaderLine \o RunRows(0, 0)

(***************************************************************************)
(* Readings of the output file used by the properties.                     *)
(***************************************************************************)

\* The index cell of each data line, as an integer (-1 when it is not one).
RowIndices ==
    LET rows == DataLines(disk)
    IN [k \in 1..Len(rows) |->
           LET c == LineCells(rows[k])[1]
           IN IF ParseInt(c).ok THEN ParseInt(c).val ELSE 0 - 1]

\* A line occurs in the file, whole and terminated.
RECURSIVE OnDiskFrom(_, _)
OnDiskFrom(line, k) ==
    IF k + Len(line) - 1 > Len(disk) THEN FALSE
    ELSE IF SubSeq(disk, k, k + Len(line) - 1) = line /\ (k = 1 \/ disk[k - 1] = NL) THEN TRUE
    ELSE OnDiskFrom(line, k + 1)

OnDisk(line) == OnDiskFrom(line, 1)

\* The file consists of terminated lines only.
WholeLines == disk = <<>> \/ disk[Len(disk)] = NL

\* The last row's index cell is missing or is not an integer.
CorruptIndex ==
    LET lines == FileLines(disk)
        rows == DataLines(disk)
    IN /\ Len(rows) > 0
       /\ LET col == ColumnPos(LineCells(lines[1]), "index")
              last == LineCells(rows[Len(rows)])
          IN \/ col = 0
             \/ col > Len(last)
             \/ \E k \in 1..Len(last[col]) : ~IsDigit(last[col][k])
             \/ last[col] = <<>>

(***************************************************************************)
(* Properties.                                                             *)
(***************************************************************************)

\* C1: a run interrupted after some rows were written and then resumed to
\* completion leaves the same output file as one uninterrupted run over the
\* same source and the same fetch outcomes.
C1_ResumedEqualsUninterrupted ==
    (pc = "done" /\ started_absent /\ kills = 0) => disk = UninterruptedOutput

\* C2: after an uninterrupted run on a fresh output the file holds one data
\* row per domain, in index order, each with its index and site, and the row
\* of a domain without a valid file has empty field cells.
C2_OneRowPerDomain ==
    (pc = "done" /\ started_absent /\ runs = 1) =>
        LET rows == DataLines(disk)
        IN /\ Len(rows) = Len(sites)
           /\ \A k \in 1..Len(rows) :
                  LET cells == LineCells(rows[k])
                  IN /\ cells[1] = Str(k - 1)
                     /\ cells[2] = Site(sites[k])
                     /\ FirstAccepted(k - 1) = 0 =>
                            \A c \in 3..Len(cells) : cells[c] = <<>>

\* C3: a domain that an earlier run finished probing is never fetched again
\* by a later run (stated for histories in which no run was killed, so that
\* every row an earlier run wrote is in the file).
C3_NoRefetch == (pc = "fetch" /\ kills = 0) => i \notin processed

\* C4: a completed run has probed exactly the indices from next_index on,
\* next_index being 0 without prior output and the last row's index plus one
\* otherwise (the value the code holds in last_queried).
C4_ProbedFromNextIndex ==
    pc = "done" => probed = {j \in 0..(Len(sites) - 1) : j >= last_queried}

\* C5: the index values of the data rows of the output file are strictly
\* increasing, in every state the file can be in.
C5_IndicesIncrease ==
    started_absent =>
        \A a, b \in 1..Len(RowIndices) : a < b => RowIndices[a] < RowIndices[b]

\* C7: a run on an output that exists but holds no data row does not abort
\* (stated for the outputs this program itself leaves behind).
C7_EmptyOutputProceeds == (started_absent /\ pc = "aborted") => ~(DataLines(disk) = <<>>)

\* C9: when the first fetch for a domain begins, every row this run emitted
\* is in the file on disk.
C9_RowsDurableBeforeNextProbe ==
    (pc = "fetch" /\ path = 1) => \A j \in emitted : OnDisk(ResultLine(j))

\* C10: whenever the process has stopped, the file on disk consists of
\* complete lines only.
C10_NoTornRow == pc \in Stopped => WholeLines

\* C6: a run started on an output whose last row has a missing or
\* non-integer index cell aborts at once: nothing is fetched and nothing is
\* written to the output.
C6_CorruptResumeAborts ==
    [][(exists /\ CorruptIndex /\ runs' = runs + 1) =>
           (pc' = "aborted" /\ disk' = disk /\ buf' = <<>> /\ probed' = {}
            /\ processed' = processed)]_vars

C6_Witness == pc = "aborted" /\ runs > 0 /\ CorruptIndex /\ disk = FileAbc /\ probed = {}

\* Occurrences of a token in the output file.
Count(tok) == Cardinality({k \in 1..Len(disk) : disk[k] = tok})

\* C8: an output that started absent and holds a data row begins with the
\* header line and holds the header exactly once.
C8_HeaderOnce ==
    (started_absent /\ ~(DataLines(disk) = <<>>)) =>
        /\ SubSeq(disk, 1, Len(HeaderLine)) = HeaderLine
        /\ Count("index") = 1
        /\ Count("acknowledgements") = 1

C8_Witness ==
    /\ started_absent
    /\ runs = 2
    /\ pc = "done"
    /\ last_queried > 0
    /\ ~(emitted = {})
    /\ Len(DataLines(disk)) >= 2
    /\ Count("index") = 1

\* C5 without kills: the indices increase as long as every run that stopped
\* early was interrupted, not killed.
C5_IncreaseUnlessKilled ==
    (started_absent /\ kills = 0) =>
        \A a, b \in 1..Len(RowIndices) : a < b => RowIndices[a] < RowIndices[b]

\* The response of the k-th fetch of the current run.
FetchResponse(k) == net[fetches[k].index + 1][fetches[k].path]

\* C11: the candidate paths of a domain are fetched in list order, a path
\* only right after the path before it was fetched and not accepted, and no
\* path of a domain is fetched after one of its paths was accepted.
C11_OrderedShortCircuit ==
    \A k \in 1..Len(fetches) :
        /\ fetches[k].path = 1 \/
              /\ k > 1
              /\ fetches[k - 1] = [index |-> fetches[k].index, path |-> fetches[k].path - 1]
              /\ ~Accepted(FetchResponse(k - 1))
        /\ Accepted(FetchResponse(k)) =>
              \A m \in (k + 1)..Len(fetches) : fetches[m].index # fetches[k].index

C11_Witness ==
    /\ \E k \in 2..Len(fetches) :
          /\ fetches[k].path = 2
          /\ fetches[k - 1].path = 1
          /\ Accepted(FetchResponse(k))
    /\ \E k \in 1..(Len(fetches) - 1) :
          /\ fetches[k].path = 1
          /\ Accepted(FetchResponse(k))
          /\ Accepted(net[fetches[k].index + 1][2])

\* C17: within one run no (domain, candidate path) pair is fetched twice,
\* so a domain causes at most as many fetches as there are candidate paths.
C17_NoRetry ==
    /\ \A k, m \in 1..Len(fetches) : k # m => fetches[k] # fetches[m]
    /\ \A j \in probed :
          Cardinality({k \in 1..Len(fetches) : fetches[k].index = j})
              <= Len(security_dot_txt_paths)

C17_Witness ==
    \E k \in 1..(Len(fetches) - 1) :
        /\ FetchResponse(k).kind = "error"
        /\ fetches[k + 1] # fetches[k]

\* The state right after the path loop accepted the body of the last
\* candidate path (/security.txt) of a domain whose first path was fetched
\* and not accepted.
FallbackAccepted ==
    /\ pc = "loop"
    /\ Len(fetches) > 1
    /\ LET f == fetches[Len(fetches)]
       IN /\ i = f.index + 1
          /\ f.path = Len(SECURITY_DOT_TXT_PATHS)
          /\ Accepted(FetchResponse(Len(fetches)))
          /\ fetches[Len(fetches) - 1] = [index |-> f.index, path |-> f.path - 1]

\* The cells of the last line written to out_file.
LastRowCells == LET lines == FileLines(buf) IN LineCells(lines[Len(lines)])

\* C12 as stated: after a fallback to /security.txt the domain's result, the
\* row written for it, records the URL of the path that matched.
C12_RowRecordsMatchedUrl ==
    FallbackAccepted =>
        /\ has_securitytxt
        /\ \E c \in 1..Len(LastRowCells) : LastRowCells[c] = url

\* C12 amended: after a fallback to /security.txt the domain is marked found,
\* the matched URL (site + /security.txt) is the value of url that line 130
\* logs, and the row written holds the index, the site and the interesting
\* fields of the /security.txt body; no cell of the row holds the matched URL.
C12_FallbackFound ==
    FallbackAccepted =>
        LET j == fetches[Len(fetches)].index
        IN /\ has_securitytxt
           /\ url = <<SCHEMA, sites[j + 1], "/security.txt">>
           /\ Len(LastRowCells) = 2 + Len(INTERESTING_FIELDS)
           /\ LastRowCells[1] = Str(j)
           /\ LastRowCells[2] = <<SCHEMA, sites[j + 1]>>
           /\ \A c \in 1..Len(INTERESTING_FIELDS) :
                 LastRowCells[2 + c] = Cell(Parse(net[j + 1][2].text), INTERESTING_FIELDS[c])
           /\ \A c \in 1..Len(LastRowCells) : LastRowCells[c] # url

C12_Witness ==
    /\ FallbackAccepted
    /\ net[i][1] = R404
    /\ net[i][2] = RValid2

\* The fetches the current run made for domain j, in order.
FetchesOf(j) == SelectSeq(fetches, LAMBDA f : f.index = j)

\* The path loop of domain j ran to its end: its last fetch was accepted or
\* was the fetch of the last candidate path.
LoopCompleted(j) ==
    LET fs == FetchesOf(j)
    IN /\ Len(fs) > 0
       /\ \/ fs[Len(fs)].path = Len(security_dot_txt_paths)
          \/ Accepted(net[j + 1][fs[Len(fs)].path])

\* The rows the skip test of line 79 lets through.
Remaining == {j \in 0..(Len(sites) - 1) : ~(j <= last_queried)}

\* C13: whatever the fetch outcomes are, a run aborts only before its first
\* fetch (the resume read), every fetch that is not accepted is followed by
\* the next candidate path of the same domain or ends that domain, and a run
\* that reaches the end of the source has run the path loop of every
\* remaining domain to its end.
C13_FailuresContained ==
    /\ pc = "aborted" => fetches = <<>>
    /\ \A k \in 1..Len(fetches) :
          ~Accepted(FetchResponse(k)) =>
              \/ fetches[k].path = Len(security_dot_txt_paths)
              \/ k = Len(fetches) /\ (pc \in {"interrupted", "killed"}
                                      \/ (pc = "fetch" /\ i = fetches[k].index
                                          /\ path = fetches[k].path + 1))
              \/ k < Len(fetches)
                 /\ fetches[k + 1] = [index |-> fetches[k].index, path |-> fetches[k].path + 1]
    /\ pc = "done" => \A j \in Remaining : LoopCompleted(j)

C13_Witness ==
    /\ pc = "done"
    /\ \A r \in {RErr, R404, RHtml, RNoContact} :
          \E k \in 1..Len(fetches) : FetchResponse(k) = r
    /\ \E k \in 1..Len(fetches) : FetchResponse(k) = RValid2
    /\ Remaining # {}

\* The k-th fetch of the current run ended the path loop of its domain with
\* a row: the domain has a row and no later path of it was fetched.
WasAccepted(k) ==
    /\ fetches[k].index \in emitted
    /\ \A m \in (k + 1)..Len(fetches) : fetches[m].index # fetches[k].index

\* A line that is not empty, is no comment and holds the separator ": ".
IsFieldLine(line) ==
    /\ Len(line) > 0
    /\ line[1] # "#"
    /\ \E s \in 1..(Len(line) - 1) : line[s] = ":" /\ line[s + 1] = " "

\* Where the first ": " of a field line starts.
FirstSep(line) ==
    CHOOSE s \in 1..(Len(line) - 1) :
        /\ line[s] = ":" /\ line[s + 1] = " "
        /\ \A t \in 1..(s - 1) : ~(line[t] = ":" /\ line[t + 1] = " ")

\* The lower-cased name and value of a field line.
NameOf(line) == Lower(SubSeq(line, 1, FirstSep(line) - 1))
ValueOf(line) == Lower(SubSeq(line, FirstSep(line) + 2, Len(line)))

\* The acceptance predicate as stated: the body does not begin with '<' and
\* some field line names contact in any letter case.
StatedAcceptance(text) ==
    /\ ~(Len(text) > 0 /\ Len(text[1]) > 0 /\ text[1][1] = "<")
    /\ \E k \in 1..Len(text) : IsFieldLine(text[k]) /\ NameOf(text[k]) = <<"contact">>

\* C14: a fetch that returned status 200 is accepted (its row is written and
\* the path loop ends) if and only if the body does not begin with '<' and
\* its parsed field map has the key contact, matched case-insensitively.
C14_AcceptanceIff ==
    \A k \in 1..Len(fetches) :
        (FetchResponse(k).kind = "response" /\ FetchResponse(k).status_code = 200) =>
            (WasAccepted(k) <=> StatedAcceptance(FetchResponse(k).text))

C14_Witness ==
    /\ pc = "done"
    /\ Len(fetches) = 1
    /\ FetchResponse(1).text = <<LExpires, LContactUpper>>
    /\ WasAccepted(1)

\* The last fetch of the current run got as far as the line loop, so fields
\* holds the map parsed from its body.
LastParsed == Len(fetches) > 0 /\ ReachesParse(FetchResponse(Len(fetches)))

\* The body of the last fetch, as lines.
LastText == FetchResponse(Len(fetches)).text

\* The field lines of a body that carry a given name, in body order.
LinesNamed(text, name) ==
    SelectSeq(text, LAMBDA l : IsFieldLine(l) /\ NameOf(l) = name)

\* C15: the field map parsed from a body is a function of the body alone:
\* empty lines, comments and lines without ": " contribute nothing; every
\* other line contributes its lower-cased text before the first ": " as a
\* name and the lower-cased rest as a value; each name occurs once in the
\* map, with exactly the values of its lines in body order.
C15_ParseByLines ==
    LastParsed =>
        /\ fields = Parse(LastText)
        /\ \A a, b \in 1..Len(fields) : a # b => fields[a].field # fields[b].field
        /\ {fields[e].field : e \in 1..Len(fields)}
              = {NameOf(LastText[k]) : k \in {n \in 1..Len(LastText) : IsFieldLine(LastText[n])}}
        /\ \A e \in 1..Len(fields) :
              LET sel == LinesNamed(LastText, fields[e].field)
              IN fields[e].values = [k \in 1..Len(sel) |-> ValueOf(sel[k])]

C15_Witness ==
    /\ LastParsed
    /\ LastText = <<LContactUpper, LContact>>
    /\ Len(fields) = 1
    /\ fields[1].values = << <<"mailto", ":", "b@x.com">>, <<"mailto", ":", "a@x.com">> >>

\* The state right after the path loop accepted a body and wrote its row.
JustAccepted ==
    /\ pc = "loop"
    /\ Len(fetches) > 0
    /\ i = fetches[Len(fetches)].index + 1
    /\ Accepted(FetchResponse(Len(fetches)))

\* Values put one after the other with one blank between neighbours.
RECURSIVE SpaceSeparated(_)
SpaceSeparated(vals) ==
    IF Len(vals) = 0 THEN <<>>
    ELSE IF Len(vals) = 1 THEN vals[1]
    ELSE SpaceSeparated(SubSeq(vals, 1, Len(vals) - 1)) \o <<" ">> \o vals[Len(vals)]

\* C16: the row written for an accepted body has, after index and site, one
\* cell per interesting field in the declared order; the cell holds the
\* values of that field's lines in body order with one blank between them,
\* is empty when the body has no such line, and nothing else of the body is
\* in the row.
C16_RowCells ==
    JustAccepted =>
        /\ Len(LastRowCells) = 2 + Len(INTERESTING_FIELDS)
        /\ \A c \in 1..Len(INTERESTING_FIELDS) :
              LET sel == LinesNamed(LastText, <<INTERESTING_FIELDS[c]>>)
              IN LastRowCells[2 + c] = SpaceSeparated([k \in 1..Len(sel) |-> ValueOf(sel[k])])

C16_Witness ==
    /\ JustAccepted
    /\ LastText = <<LContact, LContactUpper>>
    /\ LastRowCells[3] = <<"mailto", ":", "a@x.com", " ", "mailto", ":", "b@x.com">>
    /\ LastRowCells[4] = <<>>

\* The data rows the current run has written so far, as cells.
RunRowCells ==
    LET lines == FileLines(buf)
        rows == IF last_queried = 0 /\ Len(lines) > 0 THEN Tail(lines) ELSE lines
    IN [k \in 1..Len(rows) |-> LineCells(rows[k])]

\* C18: every data row a fresh or resumed run writes carries the 0-based
\* position of its domain in the source as index and https:// followed by
\* the Domain at that position as site, one row per domain the run found;
\* without a kill the same holds for every data row of the file the program
\* created.
C18_IndexIsPosition ==
    /\ pc \in Running =>
          /\ Len(RunRowCells) = Cardinality(emitted)
          /\ \A k \in 1..Len(RunRowCells) :
                \E j \in emitted :
                    /\ RunRowCells[k][1] = Str(j)
                    /\ RunRowCells[k][2] = <<"https://", sites[j + 1]>>
    /\ (started_absent /\ kills = 0) =>
          \A k \in 1..Len(DataLines(disk)) :
              LET cells == LineCells(DataLines(disk)[k])
              IN /\ ParseInt(cells[1]).ok
                 /\ ParseInt(cells[1]).val \in 0..(Len(sites) - 1)
                 /\ cells[1] = Str(ParseInt(cells[1]).val)
                 /\ cells[2] = <<"https://", sites[ParseInt(cells[1]).val + 1]>>

C18_Witness ==
    /\ JustAccepted
    /\ last_queried > 0
    /\ runs = 2
    /\ i = 11
    /\ Len(RunRowCells) = 1
    /\ RunRowCells[1][1] = <<"1", "0">>
    /\ RunRowCells[1][2] = <<"https://", "d10.com">>

\* C19: whenever a body is parsed the accumulator holds the map of that body
\* alone, and the cells of the row written for a domain are those of the
\* accepted body's map; nothing parsed from a rejected candidate path or
\* from another domain is in the row.
C19_RowFromAcceptedBodyOnly ==
    /\ LastParsed => fields = Parse(LastText)
    /\ JustAccepted =>
          \A c \in 1..Len(INTERESTING_FIELDS) :
              LastRowCells[2 + c] = Cell(Parse(LastText), INTERESTING_FIELDS[c])

C19_Witness ==
    /\ FallbackAccepted
    /\ net[i][1] = RNoContact
    /\ net[i][2] = RValid
    /\ LastRowCells[3] = <<"mailto", ":", "a@x.com">>
    /\ LastRowCells[4] = <<>>

====
